---- MODULE Spec2Model ----
(***************************************************************************)
(* Surf-Alert-App: the Mediterranean scoring engine and forecast pipeline  *)
(* of surf_alert_email.py, and the simple pipeline of surf_alert.py.       *)
(*                                                                         *)
(* Units.  The Python code works on floats; the model keeps every quantity *)
(* as a scaled integer so that each comparison of the code is exact:       *)
(*   wave height      centimetres          (0.2 m  -> 20)                  *)
(*   wave period      tenths of a second   (4.5 s  -> 45)                  *)
(*   wind speed       km/h                                                  *)
(*   directions       degrees                                               *)
(*   sub-scores       points 0..100                                         *)
(*   quality          tenths of a point    (86.4   -> 864)                 *)
(*   sunrise, sunset  hundredths of an hour (6.5 h -> 650)                 *)
(* Python's None is the value None (-1); every field is non-negative.      *)
(***************************************************************************)
EXTENDS Integers, Sequences, FiniteSets

VARIABLES
    variant,          \* which script runs: "email" (surf_alert_email.py) or "simple" (surf_alert.py)
    pc,               \* position of main / analyze_forecast
    data,             \* forecast_data returned by get_surf_forecast
    window,           \* <<sunrise, sunset>> computed for tomorrow
    i,                \* index of the loop over hourly['time'] (1-based)
    alerts,           \* analyze_forecast: alerts
    all_scores,       \* analyze_forecast: all_scores
    max_quality,      \* analyze_forecast: max_quality (tenths)
    max_wave_height,  \* analyze_forecast: max_wave_height (cm)
    alert_data,       \* value returned by analyze_forecast
    err,              \* uncaught exception, "" when none
    output,           \* what main printed, in order
    sent,             \* number of calls of send_email_notification
    args,             \* scoring engine: the five inputs of calculate_surf_quality
    ret               \* scoring engine: sub-scores and quality computed from args

vars == <<variant, pc, data, window, i, alerts, all_scores, max_quality,
          max_wave_height, alert_data, err, output, sent, args, ret>>

pipeVars == <<variant, pc, data, window, i, alerts, all_scores, max_quality,
              max_wave_height, alert_data, err, output, sent>>

None == -1

Min(a, b) == IF a < b THEN a ELSE b
Max(a, b) == IF a > b THEN a ELSE b

\* ---------------------------------------------------------------- config
SURF_THRESHOLD == 50
MIN_QUALITY_SCORE == 50
EMAIL_ENABLED == TRUE
OPTIMAL_SWELL_DIRECTIONS == {90, 100, 110, 120, 130}
OFFSHORE_WIND_DIRECTIONS == {270, 280, 290, 300, 310, 320, 330}

Abs(x) == IF x < 0 THEN -x ELSE x

\* ------------------------------------------------------- scoring engine
score_wave_period(period) ==
    IF period = None THEN 30
    ELSE IF period < 30 THEN 10
    ELSE IF period < 40 THEN 30
    ELSE IF period < 50 THEN 50
    ELSE IF period < 60 THEN 70
    ELSE IF period < 70 THEN 85
    ELSE IF period < 90 THEN 92
    ELSE 97

score_wind_direction(wind_dir, wave_dir) ==
    IF wind_dir = None THEN 50
    ELSE IF \E d \in OFFSHORE_WIND_DIRECTIONS : Abs(wind_dir - d) < 30 THEN 100
    ELSE IF 330 < wind_dir \/ wind_dir < 30 \/ (240 < wind_dir /\ wind_dir < 270) THEN 80
    ELSE IF (30 < wind_dir /\ wind_dir < 80) \/ (180 < wind_dir /\ wind_dir < 240) THEN 60
    ELSE IF 80 < wind_dir /\ wind_dir < 150 THEN 30
    ELSE 50

score_wind_speed(wind_speed) ==
    IF wind_speed = None THEN 50
    ELSE IF wind_speed < 5 THEN 95
    ELSE IF wind_speed < 10 THEN 90
    ELSE IF wind_speed < 15 THEN 75
    ELSE IF wind_speed < 20 THEN 60
    ELSE IF wind_speed < 25 THEN 40
    ELSE 20

score_swell_direction(wave_dir) ==
    IF wave_dir = None THEN 50
    ELSE IF 85 < wave_dir /\ wave_dir < 135 THEN 100
    ELSE IF 70 < wave_dir /\ wave_dir < 150 THEN 85
    ELSE IF 50 < wave_dir /\ wave_dir < 170 THEN 65
    ELSE IF 30 < wave_dir /\ wave_dir < 180 THEN 40
    ELSE 20

score_wave_height(height) ==
    IF height = None \/ height < 20 THEN 0
    ELSE IF height < 40 THEN 30
    ELSE IF height < 60 THEN 60
    ELSE IF height < 90 THEN 80
    ELSE IF height < 120 THEN 90
    ELSE IF height < 180 THEN 95
    ELSE IF height < 250 THEN 90
    ELSE 70

\* The weighted combination, in hundredths of a point:
\* period 0.45, height 0.30, swell direction 0.15, wind direction 0.07, wind speed 0.03.
WeightedSum(period_score, height_score, swell_dir_score, wind_dir_score, wind_speed_score) ==
    period_score * 45 + height_score * 30 + swell_dir_score * 15
        + wind_dir_score * 7 + wind_speed_score * 3

\* The if / elif / elif chain of synergy multipliers.  q is the quality in
\* 1/10000 of a point, so each of *1.10, *1.05, *0.85 is exact.
ApplySynergyBoth(q, wave_height, wave_period) ==
    IF wave_height # None /\ wave_period # None
    THEN LET q1 == IF wave_period >= 60 /\ wave_height >= 80 THEN (q * 110) \div 100 ELSE q
             q2 == IF wave_period >= 55 /\ wave_height >= 100 THEN (q1 * 105) \div 100 ELSE q1
         IN  IF wave_period < 45 /\ wave_height < 70 THEN (q2 * 85) \div 100 ELSE q2
    ELSE q

ApplySynergyReordered(q, wave_height, wave_period) ==
    IF wave_height # None /\ wave_period # None
    THEN IF wave_period >= 55 /\ wave_height >= 100 THEN (q * 105) \div 100
         ELSE IF wave_period >= 60 /\ wave_height >= 80 THEN (q * 110) \div 100
         ELSE IF wave_period < 45 /\ wave_height < 70 THEN (q * 85) \div 100
         ELSE q
    ELSE q

ApplySynergyNone(q, wave_height, wave_period) == q

ApplySynergy(q, wave_height, wave_period) ==
    IF wave_height # None /\ wave_period # None
    THEN IF wave_period >= 60 /\ wave_height >= 80 THEN (q * 110) \div 100
         ELSE IF wave_period >= 55 /\ wave_height >= 100 THEN (q * 105) \div 100
         ELSE IF wave_period < 45 /\ wave_height < 70 THEN (q * 85) \div 100
         ELSE q
    ELSE q

\* round(quality, 1): q in 1/10000 of a point, result in tenths.  Off a tie
\* the nearest tenth is exact.  On a tie (x.x5) the double that Python holds
\* is not exactly x.x5 and round() follows its representation error, so
\* across inputs both neighbours occur (39.25 -> 39.2, 61.25 -> 61.3):
\* the model admits both.
Round1(q) ==
    LET fl  == q \div 1000
        rem == q % 1000
    IN  IF rem < 500 THEN {fl}
        ELSE IF rem > 500 THEN {fl + 1}
        ELSE {fl, fl + 1}

\* min(round(quality, 1), 100), in tenths
ClampNone(r) == r

Clamp(r) == Min(r, 1000)

\* "if height_score < 30: return height_score"
BelowFloorNever(height_score) == height_score < 0

BelowFloor(height_score) == height_score < 30

\* The set of values calculate_surf_quality can return (tenths of a point);
\* a singleton except on a rounding tie.
calculate_surf_quality(wave_height, wave_period, wave_direction, wind_speed, wind_direction) ==
    LET height_score     == score_wave_height(wave_height)
        period_score     == score_wave_period(wave_period)
        wind_dir_score   == score_wind_direction(wind_direction, wave_direction)
        wind_speed_score == score_wind_speed(wind_speed)
        swell_dir_score  == score_swell_direction(wave_direction)
        quality == WeightedSum(period_score, height_score, swell_dir_score,
                               wind_dir_score, wind_speed_score) * 100
    IN  IF BelowFloor(height_score) THEN {height_score * 10}
        ELSE {Clamp(r) : r \in Round1(ApplySynergy(quality, wave_height, wave_period))}

get_quality_rating(score) ==
    IF score >= 800 THEN "EPIC"
    ELSE IF score >= 700 THEN "EXCELLENT"
    ELSE IF score >= 600 THEN "GOOD"
    ELSE IF score >= 500 THEN "FAIR"
    ELSE IF score >= 400 THEN "MARGINAL"
    ELSE "POOR"

\* ------------------------------------------------- daylight window
\* The three shapes calculate_sunrise_sunset returns: the polar-night
\* sentinel (None, None), the polar-day sentinel (0, 24), and an ordinary
\* civil-twilight window (06:30 to 20:15 local).
PolarNight == <<None, None>>
PolarDay   == <<0, 2400>>
Windows    == {PolarNight, PolarDay, <<650, 2025>>}

\* "sunrise <= hour < sunset"; hour is a whole hour, the window is in
\* hundredths of an hour.
is_daylight(hour, sunrise, sunset) ==
    IF sunrise = None \/ sunset = None THEN TRUE
    ELSE sunrise <= hour * 100 /\ hour * 100 < sunset

\* ------------------------------------------------- forecast responses
MaxHours == 2

\* date: days from today (tomorrow = 1); the API's timestamps are on the hour.
TimeLine ==
    << [date |-> 0, hour |-> 12, minute |-> 0],
       [date |-> 1, hour |-> 3,  minute |-> 0],
       [date |-> 1, hour |-> 9,  minute |-> 0],
       [date |-> 1, hour |-> 12, minute |-> 0] >>

\* Time axes: the ascending selections of at most MaxHours timestamps.
TimeAxes ==
    UNION { { [j \in 1..n |-> TimeLine[s[j]]] :
                s \in { t \in [1..n -> 1..Len(TimeLine)] :
                          \A j \in 1..(n - 1) : t[j] < t[j + 1] } } :
            n \in 0..MaxHours }

\* One hour of the response: wave height (cm), period (1/10 s), wave
\* direction, wind speed, wind direction; None is JSON null.
Observations ==
    { [h |-> None, p |-> 62,   wd |-> 110,  ws |-> 8,    wdir |-> 300],
      [h |-> 0,    p |-> 100,  wd |-> 110,  ws |-> 8,    wdir |-> 300],
      [h |-> 40,   p |-> 100,  wd |-> 110,  ws |-> 8,    wdir |-> 300],
      [h |-> 60,   p |-> 20,   wd |-> None, ws |-> None, wdir |-> None],
      [h |-> 100,  p |-> 62,   wd |-> 110,  ws |-> 8,    wdir |-> 300],
      [h |-> 60,   p |-> None, wd |-> 110,  ws |-> None, wdir |-> 300] }

OptionalKeys == {"wave_direction", "wave_period", "wind_speed_10m", "wind_direction_10m"}
ArrayKeys    == OptionalKeys \cup {"wave_height"}
AllKeys      == ArrayKeys \cup {"time"}

\* How a response deviates from six full parallel arrays: keys that are
\* missing and arrays that are one element shorter than the time axis.
Shapes ==
    {[missing |-> {}, short |-> {}]}
    \cup {[missing |-> {k}, short |-> {}] : k \in AllKeys}
    \cup {[missing |-> {}, short |-> {k}] : k \in ArrayKeys}
    \cup {[missing |-> {"wind_speed_10m", "wind_direction_10m"}, short |-> {}]}

FieldOf(o, k) ==
    CASE k = "wave_height"        -> o.h
      [] k = "wave_period"        -> o.p
      [] k = "wave_direction"     -> o.wd
      [] k = "wind_speed_10m"     -> o.ws
      [] k = "wind_direction_10m" -> o.wdir

Hourly(axis, obs, shape) ==
    [k \in AllKeys \ shape.missing |->
        IF k = "time" THEN axis
        ELSE LET n == IF k \in shape.short /\ Len(axis) > 0 THEN Len(axis) - 1 ELSE Len(axis)
             IN  [j \in 1..n |-> FieldOf(obs[j], k)]]

NoneData == [isNone |-> TRUE, hasHourly |-> FALSE, hourly |-> <<>>]

Forecasts ==
    {[isNone |-> FALSE, hasHourly |-> FALSE, hourly |-> <<>>]}
    \cup UNION { { [isNone |-> FALSE, hasHourly |-> TRUE, hourly |-> Hourly(axis, obs, shape)] :
                     obs \in [1..Len(axis) -> Observations], shape \in Shapes } :
                 axis \in TimeAxes }

\* hourly.get(key, default)
Get(hourly, key, default) == IF key \in DOMAIN hourly THEN hourly[key] ELSE default

times == data.hourly["time"]
wave_heights == data.hourly["wave_height"]
NoneList == [j \in 1..Len(times) |-> None]
wave_directions == Get(data.hourly, "wave_direction", NoneList)
wave_periods    == Get(data.hourly, "wave_period", NoneList)
wind_speeds     == Get(data.hourly, "wind_speed_10m", NoneList)
wind_directions == Get(data.hourly, "wind_direction_10m", NoneList)

tomorrow == 1

\* time_obj.strftime('%H:%M'), as the number HHMM
strftime(t) == t.hour * 100 + t.minute

\* "x[i] if i < len(x) else None" (index 1-based here)
ElementUnchecked(arr, j) == IF j <= Len(arr) THEN arr[j] ELSE 0

Element(arr, j) == IF j <= Len(arr) THEN arr[j] ELSE None

\* surf_alert.py: "x[i] if i < len(x) and x[i] is not None else 'N/A'"
NA == -2
ElementOrNA(arr, j) == IF j <= Len(arr) /\ arr[j] # None THEN arr[j] ELSE NA

\* ------------------------------------------------- analyze_forecast
NoneReport == [absent |-> TRUE]

\* line 378: "if wave_height is not None"
LoggedIfTruthy(wave_height) == wave_height # None /\ wave_height # 0

Logged(wave_height) == wave_height # None

\* line 392: "if wave_height >= SURF_THRESHOLD" guarding the two maxima
TracksMaxAlways(wave_height) == TRUE

TracksMax(wave_height) == wave_height >= SURF_THRESHOLD

\* line 413: 'above_wave_threshold': wave_height >= SURF_THRESHOLD
above_wave_threshold(wave_height) == wave_height >= SURF_THRESHOLD

\* line 417: "if wave_height >= SURF_THRESHOLD and quality >= MIN_QUALITY_SCORE"
AlertWorthyHeightOnly(wave_height, quality) == wave_height >= SURF_THRESHOLD

AlertWorthy(wave_height, quality) ==
    wave_height >= SURF_THRESHOLD /\ quality >= MIN_QUALITY_SCORE * 10

ScoreEntry(t, wave_height, wave_per, wave_dir, wind_spd, wind_dir, quality) ==
    [time |-> strftime(t),
     wave_height |-> wave_height,
     wave_period |-> wave_per,
     wave_direction |-> wave_dir,
     wind_speed |-> wind_spd,
     wind_direction |-> wind_dir,
     quality_score |-> quality,
     quality_rating |-> get_quality_rating(quality),
     breakdown |-> [height_score     |-> score_wave_height(wave_height),
                    period_score     |-> score_wave_period(wave_per),
                    swell_dir_score  |-> score_swell_direction(wave_dir),
                    wind_dir_score   |-> score_wind_direction(wind_dir, wave_dir),
                    wind_speed_score |-> score_wind_speed(wind_spd)],
     above_wave_threshold |-> above_wave_threshold(wave_height)]

AlertEntry(t, wave_height, wave_per, wave_dir, wind_spd, wind_dir, quality) ==
    [time |-> strftime(t),
     wave_height |-> wave_height,
     wave_direction |-> wave_dir,
     wave_period |-> wave_per,
     wind_speed |-> wind_spd,
     wind_direction |-> wind_dir,
     quality_score |-> quality,
     quality_rating |-> get_quality_rating(quality)]

AddAlertFront(list, entry) == <<entry>> \o list

\* line 418: "alerts.append({...})"
AddAlert(list, entry) == Append(list, entry)

\* -------------------------------------------------------------- main
\* main, up to the fetch: get_surf_forecast returns the merged response, or
\* None when the request failed; main stops on None.
GetSurfForecast ==
    /\ pc = "main"
    /\ \E d \in Forecasts \cup {NoneData} :
          /\ data' = d
          /\ IF d.isNone
             THEN /\ output' = Append(output, "fetch_failed")
                  /\ pc' = "exit"
             ELSE /\ output' = output
                  /\ pc' = "analyze"
    /\ UNCHANGED <<variant, window, i, alerts, all_scores, max_quality,
                   max_wave_height, alert_data, err, sent, args, ret>>

\* analyze_forecast up to the loop: the guard on data, the two mandatory
\* lookups hourly['time'] and hourly['wave_height'] (KeyError when the key is
\* missing), and in surf_alert_email.py the daylight window of tomorrow.
AnalyzeEnter ==
    /\ pc = "analyze"
    /\ IF data.isNone \/ ~data.hasHourly
       THEN /\ alert_data' = NoneReport
            /\ pc' = "returned"
            /\ UNCHANGED <<err, window>>
       ELSE IF "time" \notin DOMAIN data.hourly \/ "wave_height" \notin DOMAIN data.hourly
       THEN /\ err' = "KeyError"
            /\ pc' = "crashed"
            /\ UNCHANGED <<alert_data, window>>
       ELSE /\ IF variant = "email"
               THEN window' \in Windows
               ELSE window' = window
            /\ pc' = "loop"
            /\ UNCHANGED <<alert_data, err>>
    /\ i' = 1
    /\ alerts' = <<>>
    /\ all_scores' = <<>>
    /\ max_quality' = 0
    /\ max_wave_height' = 0
    /\ UNCHANGED <<variant, data, output, sent, args, ret>>

\* One iteration of the loop of surf_alert_email.analyze_forecast.
LoopEmail ==
    /\ pc = "loop"
    /\ variant = "email"
    /\ i <= Len(times)
    /\ LET t == times[i] IN
       IF t.date # tomorrow \/ ~is_daylight(t.hour, window[1], window[2])
       THEN /\ i' = i + 1
            /\ UNCHANGED <<pc, err, alerts, all_scores, max_quality, max_wave_height>>
       ELSE IF i > Len(wave_heights)
       THEN /\ err' = "IndexError"
            /\ pc' = "crashed"
            /\ UNCHANGED <<i, alerts, all_scores, max_quality, max_wave_height>>
       ELSE LET wave_height == wave_heights[i]
                wave_dir == Element(wave_directions, i)
                wave_per == Element(wave_periods, i)
                wind_spd == Element(wind_speeds, i)
                wind_dir == Element(wind_directions, i)
            IN  /\ i' = i + 1
                /\ UNCHANGED <<pc, err>>
                /\ IF ~Logged(wave_height)
                   THEN UNCHANGED <<alerts, all_scores, max_quality, max_wave_height>>
                   ELSE \E quality \in calculate_surf_quality(wave_height, wave_per,
                                                              wave_dir, wind_spd, wind_dir) :
                          /\ IF TracksMax(wave_height)
                             THEN /\ max_wave_height' = Max(max_wave_height, wave_height)
                                  /\ max_quality' = Max(max_quality, quality)
                             ELSE UNCHANGED <<max_quality, max_wave_height>>
                          /\ all_scores' = Append(all_scores,
                                 ScoreEntry(t, wave_height, wave_per, wave_dir,
                                            wind_spd, wind_dir, quality))
                          /\ IF AlertWorthy(wave_height, quality)
                             THEN alerts' = AddAlert(alerts,
                                      AlertEntry(t, wave_height, wave_per, wave_dir,
                                                 wind_spd, wind_dir, quality))
                             ELSE alerts' = alerts
    /\ UNCHANGED <<variant, data, window, alert_data, output, sent, args, ret>>

\* The end of the loop of surf_alert_email.analyze_forecast:
\* "return result if alerts or all_scores else None".
ReturnEmail ==
    /\ pc = "loop"
    /\ variant = "email"
    /\ i > Len(times)
    /\ alert_data' = IF alerts # <<>> \/ all_scores # <<>>
                     THEN [absent |-> FALSE,
                           date |-> tomorrow,
                           max_wave_height |-> max_wave_height,
                           max_quality |-> max_quality,
                           sunrise |-> window[1],
                           sunset |-> window[2],
                           alerts |-> alerts,
                           all_scores |-> all_scores]
                     ELSE NoneReport
    /\ pc' = "returned"
    /\ UNCHANGED <<variant, data, window, i, alerts, all_scores, max_quality,
                   max_wave_height, err, output, sent, args, ret>>

\* One iteration of the loop of surf_alert.analyze_forecast: no daylight
\* filter, no scoring; the maximum is over every hour of tomorrow.
LoopSimple ==
    /\ pc = "loop"
    /\ variant = "simple"
    /\ i <= Len(times)
    /\ LET t == times[i] IN
       IF t.date # tomorrow
       THEN /\ i' = i + 1
            /\ UNCHANGED <<pc, err, alerts, max_wave_height>>
       ELSE IF i > Len(wave_heights)
       THEN /\ err' = "IndexError"
            /\ pc' = "crashed"
            /\ UNCHANGED <<i, alerts, max_wave_height>>
       ELSE LET wave_height == wave_heights[i] IN
            /\ i' = i + 1
            /\ UNCHANGED <<pc, err>>
            /\ IF wave_height = None
               THEN UNCHANGED <<alerts, max_wave_height>>
               ELSE /\ max_wave_height' = Max(max_wave_height, wave_height)
                    /\ IF wave_height >= SURF_THRESHOLD
                       THEN alerts' = Append(alerts,
                                [time |-> strftime(t),
                                 wave_height |-> wave_height,
                                 wave_direction |-> ElementOrNA(wave_directions, i),
                                 wave_period |-> ElementOrNA(wave_periods, i),
                                 wind_speed |-> ElementOrNA(wind_speeds, i),
                                 wind_direction |-> ElementOrNA(wind_directions, i)])
                       ELSE alerts' = alerts
    /\ UNCHANGED <<variant, data, window, all_scores, max_quality, alert_data,
                   output, sent, args, ret>>

\* The end of surf_alert.analyze_forecast: a report if alerts, else None.
ReturnSimple ==
    /\ pc = "loop"
    /\ variant = "simple"
    /\ i > Len(times)
    /\ alert_data' = IF alerts # <<>>
                     THEN [absent |-> FALSE,
                           date |-> tomorrow,
                           max_wave_height |-> max_wave_height,
                           alerts |-> alerts]
                     ELSE NoneReport
    /\ pc' = "returned"
    /\ UNCHANGED <<variant, data, window, i, alerts, all_scores, max_quality,
                   max_wave_height, err, output, sent, args, ret>>

\* format_alert_message of surf_alert_email.py, by the text it builds: the
\* "no quality surf alerts" sentence for an absent report, else the report
\* header followed by one block per alert (none when alerts is empty).
format_alert_message(ad) ==
    IF ad.absent THEN "no_quality_alerts"
    ELSE IF ad.alerts = <<>> THEN "report_without_windows"
    ELSE "report_with_windows"

\* format_alert_message of surf_alert.py
format_alert_message_simple(ad) ==
    IF ad.absent THEN "no_alerts_below_threshold"
    ELSE "report_with_windows"

ShouldSendAlways(ad) == TRUE

\* main, line 578: "if alert_data['alerts'] and EMAIL_ENABLED"
ShouldSend(ad) == ad.alerts # <<>> /\ EMAIL_ENABLED

\* surf_alert_email.main after analyze_forecast returned.
MainEmail ==
    /\ pc = "returned"
    /\ variant = "email"
    /\ IF alert_data.absent
       THEN /\ output' = Append(output, "no_data_for_tomorrow")
            /\ pc' = "exit"
       ELSE LET printed == output \o <<"breakdown", format_alert_message(alert_data)>> IN
            IF ShouldSend(alert_data)
            THEN /\ output' = printed
                 /\ pc' = "send"
            ELSE IF alert_data.alerts # <<>> /\ ~EMAIL_ENABLED
            THEN /\ output' = Append(printed, "email_disabled")
                 /\ pc' = "exit"
            ELSE /\ output' = Append(printed, "no_email_below_quality")
                 /\ pc' = "exit"
    /\ UNCHANGED <<variant, data, window, i, alerts, all_scores, max_quality,
                   max_wave_height, alert_data, err, sent, args, ret>>

\* send_email_notification: one SMTP session; any exception is caught and
\* printed, so the call always returns to main.
SendEmail ==
    /\ pc = "send"
    /\ sent' = sent + 1
    /\ IF ~EMAIL_ENABLED
       THEN output' = output
       ELSE \E ok \in BOOLEAN :
               output' = Append(output, IF ok THEN "email_sent" ELSE "email_failed")
    /\ pc' = "exit"
    /\ UNCHANGED <<variant, data, window, i, alerts, all_scores, max_quality,
                   max_wave_height, alert_data, err, args, ret>>

\* surf_alert.main after analyze_forecast returned.
MainSimple ==
    /\ pc = "returned"
    /\ variant = "simple"
    /\ output' = Append(output, format_alert_message_simple(alert_data))
    /\ pc' = "exit"
    /\ UNCHANGED <<variant, data, window, i, alerts, all_scores, max_quality,
                   max_wave_height, alert_data, err, sent, args, ret>>

NoArgs == [h |-> None, p |-> None, wd |-> None, ws |-> None, wdir |-> None]
NoRet  == [done |-> FALSE]

InitPipe ==
    /\ pc = "main"
    /\ data = NoneData
    /\ window = PolarNight
    /\ i = 1
    /\ alerts = <<>>
    /\ all_scores = <<>>
    /\ max_quality = 0
    /\ max_wave_height = 0
    /\ alert_data = NoneReport
    /\ err = ""
    /\ output = <<>>
    /\ sent = 0

Init ==
    /\ variant \in {"email", "simple"}
    /\ InitPipe
    /\ args = NoArgs
    /\ ret = NoRet

Next ==
    \/ GetSurfForecast
    \/ AnalyzeEnter
    \/ LoopEmail
    \/ ReturnEmail
    \/ LoopSimple
    \/ ReturnSimple
    \/ MainEmail
    \/ SendEmail
    \/ MainSimple

Spec == Init /\ [][Next]_vars

\* ------------------------------------------- the scoring engine alone
\* Inputs of calculate_surf_quality: None, and values on both sides of
\* every breakpoint of the five tables and of the synergy thresholds.
HeightInputs  == {None, 0, 19, 20, 39, 40, 59, 60, 69, 70, 79, 80, 89, 90, 99, 100,
                  119, 120, 179, 180, 249, 250, 400}
PeriodInputs  == {None, 0, 29, 30, 39, 40, 44, 45, 49, 50, 54, 55, 59, 60, 69, 70,
                  89, 90, 150}
SwellInputs   == {None, 0, 30, 40, 60, 80, 110, 135, 150, 170, 180, 360}
WindDirInputs == {None, 0, 30, 50, 80, 100, 150, 200, 240, 255, 300, 345, 360}
WindSpdInputs == {None, 0, 5, 10, 15, 20, 25, 60}

InitScore ==
    /\ variant = "email"
    /\ InitPipe
    /\ args \in [h : HeightInputs, p : PeriodInputs, wd : SwellInputs,
                 ws : WindSpdInputs, wdir : WindDirInputs]
    /\ ret = NoRet

\* One call calculate_surf_quality(h, p, wd, ws, wdir), with the five
\* sub-scores it computes on the way.
CalculateSurfQuality ==
    /\ ~ret.done
    /\ \E quality \in calculate_surf_quality(args.h, args.p, args.wd, args.ws, args.wdir) :
          ret' = [done |-> TRUE,
                  height_score     |-> score_wave_height(args.h),
                  period_score     |-> score_wave_period(args.p),
                  wind_dir_score   |-> score_wind_direction(args.wdir, args.wd),
                  wind_speed_score |-> score_wind_speed(args.ws),
                  swell_dir_score  |-> score_swell_direction(args.wd),
                  quality          |-> quality]
    /\ UNCHANGED <<pipeVars, args>>

NextScore == CalculateSurfQuality

SpecScore == InitScore /\ [][NextScore]_vars

\* ------------------------------------------------------- properties
\* The response carries both mandatory axes.
HasAxes ==
    /\ ~data.isNone
    /\ data.hasHourly
    /\ "time" \in DOMAIN data.hourly
    /\ "wave_height" \in DOMAIN data.hourly

\* analyze_forecast has entered its loop; the hours 1..i-1 are behind it.
InLoop == HasAxes /\ pc \in {"loop", "crashed", "returned", "send", "exit"}

Processed == 1..(i - 1)

\* Hour j is an hour of tomorrow inside the daylight filter with a defined
\* wave height: the hours surf_alert_email.analyze_forecast evaluates.
Evaluated(j) ==
    /\ times[j].date = tomorrow
    /\ is_daylight(times[j].hour, window[1], window[2])
    /\ j <= Len(wave_heights)
    /\ wave_heights[j] # None

\* The optional array under key k gives nothing for hour j: the key is
\* missing, the array is too short, or the element is null.
FieldAbsent(k, j) ==
    \/ k \notin DOMAIN data.hourly
    \/ j > Len(data.hourly[k])
    \/ data.hourly[k][j] = None

ScoresAt(j) == {k \in 1..Len(all_scores) : all_scores[k].time = strftime(times[j])}
AlertsAt(j) == {k \in 1..Len(alerts) : alerts[k].time = strftime(times[j])}

SetMax(S) == IF S = {} THEN 0 ELSE CHOOSE x \in S : \A y \in S : y <= x

\* C1: in surf_alert_email.analyze_forecast every evaluated hour (tomorrow,
\* daylight, defined wave height) is in alerts if and only if its wave height
\* is >= SURF_THRESHOLD and its quality score, a value of
\* calculate_surf_quality on that hour's fields, is >= MIN_QUALITY_SCORE.
C1_AlertIffBothThresholds ==
    (variant = "email" /\ InLoop) =>
        \A j \in Processed : Evaluated(j) =>
            \E k \in ScoresAt(j) :
                LET e == all_scores[k] IN
                /\ e.quality_score \in calculate_surf_quality(
                       wave_heights[j], Element(wave_periods, j),
                       Element(wave_directions, j), Element(wind_speeds, j),
                       Element(wind_directions, j))
                /\ (AlertsAt(j) # {}) <=>
                      (wave_heights[j] >= SURF_THRESHOLD
                          /\ e.quality_score >= MIN_QUALITY_SCORE * 10)

\* A finished analysis that saw an hour above the wave threshold whose
\* quality is too low and an hour of sufficient quality below the wave
\* threshold, and listed neither.
C1_Witness ==
    /\ variant = "email"
    /\ pc = "returned"
    /\ ~alert_data.absent
    /\ alerts = <<>>
    /\ \E a, b \in 1..Len(all_scores) :
          /\ all_scores[a].wave_height >= SURF_THRESHOLD
          /\ all_scores[a].quality_score < MIN_QUALITY_SCORE * 10
          /\ all_scores[b].wave_height < SURF_THRESHOLD
          /\ all_scores[b].quality_score >= MIN_QUALITY_SCORE * 10

\* C2: in surf_alert_email.analyze_forecast, after any number of hours,
\* max_wave_height and max_quality are the maxima (0 if none) of wave height
\* and of quality score over the evaluated hours whose wave height is
\* >= SURF_THRESHOLD only; the returned report carries the same two values.
C2_MaximaOnlyAboveThreshold ==
    (variant = "email" /\ InLoop) =>
        LET above == {j \in Processed : Evaluated(j) /\ wave_heights[j] >= SURF_THRESHOLD}
            top_h == SetMax({wave_heights[j] : j \in above})
            top_q == SetMax({all_scores[k].quality_score :
                               k \in UNION {ScoresAt(j) : j \in above}})
        IN  /\ max_wave_height = top_h
            /\ max_quality = top_q
            /\ (pc \in {"returned", "send", "exit"} /\ ~alert_data.absent) =>
                  /\ alert_data.max_wave_height = top_h
                  /\ alert_data.max_quality = top_q

\* A report holding an hour below the wave threshold whose quality is higher
\* than that of every hour above it, and at least one hour above it.
C2_Witness ==
    /\ variant = "email"
    /\ pc = "returned"
    /\ ~alert_data.absent
    /\ alert_data.max_wave_height > 0
    /\ \E b \in 1..Len(all_scores) :
          /\ all_scores[b].wave_height < SURF_THRESHOLD
          /\ all_scores[b].quality_score > alert_data.max_quality

\* C3: for all inputs (each absent or a non-negative number, directions in
\* 0..360) the five sub-scores and the result of calculate_surf_quality lie
\* in [0, 100], also when the 1.10 bonus lifts the weighted sum above 100.
C3_ScoresInRange ==
    ret.done =>
        /\ ret.height_score \in 0..100
        /\ ret.period_score \in 0..100
        /\ ret.swell_dir_score \in 0..100
        /\ ret.wind_dir_score \in 0..100
        /\ ret.wind_speed_score \in 0..100
        /\ ret.quality \in 0..1000

\* A call whose weighted sum times 1.10 exceeds 100 points and whose result
\* is exactly 100.
C3_Witness ==
    /\ ret.done
    /\ args.p # None /\ args.p >= 60
    /\ args.h # None /\ args.h >= 80
    /\ WeightedSum(ret.period_score, ret.height_score, ret.swell_dir_score,
                   ret.wind_dir_score, ret.wind_speed_score) * 110 > 1000000
    /\ ret.quality = 1000

\* C4: when the wave height is absent or below 0.2 m, score_wave_height is 0
\* and calculate_surf_quality returns exactly that 0 whatever the other four
\* inputs are; and whenever the height score is below 30 the result is the
\* height score itself, with no weighted sum, bonus or penalty.
C4_HardFloor ==
    ret.done =>
        /\ (args.h = None \/ args.h < 20) => (ret.height_score = 0 /\ ret.quality = 0)
        /\ ret.height_score < 30 => ret.quality = ret.height_score * 10

\* A 0.19 m wave with the best period, swell direction, wind direction and
\* wind speed, scored.
C4_Witness ==
    /\ ret.done
    /\ args.h = 19
    /\ args.p = 150
    /\ args.wd = 110
    /\ args.wdir = 300
    /\ args.ws = 0

\* The multiplier the priority order gives (in percent): 1.10, else 1.05,
\* else 0.85, else none; none at all without a period or a height.
SynergyPercent(h, p) ==
    IF h = None \/ p = None THEN 100
    ELSE IF p >= 60 /\ h >= 80 THEN 110
    ELSE IF p >= 55 /\ h >= 100 THEN 105
    ELSE IF p < 45 /\ h < 70 THEN 85
    ELSE 100

\* C5: for every input with height score >= 30 the result of
\* calculate_surf_quality is the weighted sum times exactly one factor chosen
\* in priority order (1.10 if period >= 6 and height >= 0.8; otherwise 1.05
\* if period >= 5.5 and height >= 1.0; otherwise 0.85 if period < 4.5 and
\* height < 0.7; otherwise 1), rounded to one decimal and capped at 100; no
\* factor applies when the period is absent.
C5_OneSynergyFactor ==
    (ret.done /\ ret.height_score >= 30) =>
        LET w == WeightedSum(ret.period_score, ret.height_score, ret.swell_dir_score,
                             ret.wind_dir_score, ret.wind_speed_score)
        IN  ret.quality \in {Min(r, 1000) : r \in Round1(w * SynergyPercent(args.h, args.p))}

\* A call in which both bonus conditions hold (period >= 6, height >= 1.0)
\* and the result stays below the cap, so a second factor would show.
C5_Witness ==
    /\ ret.done
    /\ args.p # None /\ args.p >= 60
    /\ args.h # None /\ args.h >= 100
    /\ ret.quality < 1000

\* C6: with the polar-night window (None, None) the daylight filter excludes
\* every hour, so surf_alert_email.analyze_forecast logs and lists nothing;
\* with the polar-day window (0, 24) every hour of tomorrow that has a wave
\* height is evaluated.
C6_PolarSentinels ==
    (variant = "email" /\ InLoop) =>
        /\ window = PolarNight => (all_scores = <<>> /\ alerts = <<>>)
        /\ window = PolarDay =>
              \A j \in Processed :
                  (times[j].date = tomorrow /\ j <= Len(wave_heights)
                      /\ wave_heights[j] # None) => ScoresAt(j) # {}

\* C7: in both scripts, an optional array (wave direction, wave period, wind
\* speed, wind direction) that is missing, shorter than the time axis or
\* null at an hour makes that field absent for that hour and nothing more:
\* the hour is still processed, in surf_alert_email.py with None in the
\* entry and the default sub-score (period 30, the others 50), in
\* surf_alert.py with 'N/A' in the alert; and while the wave-height array
\* covers the time axis no exception is raised.
C7_OptionalFieldsTolerated ==
    InLoop =>
        /\ Len(wave_heights) >= Len(times) => (err = "" /\ pc # "crashed")
        /\ variant = "email" =>
              \A j \in Processed : Evaluated(j) =>
                  \E k \in ScoresAt(j) :
                      LET e == all_scores[k] IN
                      /\ e.wave_height = wave_heights[j]
                      /\ FieldAbsent("wave_direction", j) =>
                            (e.wave_direction = None /\ e.breakdown.swell_dir_score = 50)
                      /\ FieldAbsent("wave_period", j) =>
                            (e.wave_period = None /\ e.breakdown.period_score = 30)
                      /\ FieldAbsent("wind_speed_10m", j) =>
                            (e.wind_speed = None /\ e.breakdown.wind_speed_score = 50)
                      /\ FieldAbsent("wind_direction_10m", j) =>
                            (e.wind_direction = None /\ e.breakdown.wind_dir_score = 50)
        /\ variant = "simple" =>
              \A j \in Processed :
                  (times[j].date = tomorrow /\ j <= Len(wave_heights)
                      /\ wave_heights[j] # None /\ wave_heights[j] >= SURF_THRESHOLD) =>
                  \E k \in AlertsAt(j) :
                      LET a == alerts[k] IN
                      /\ FieldAbsent("wave_direction", j) => a.wave_direction = NA
                      /\ FieldAbsent("wave_period", j) => a.wave_period = NA
                      /\ FieldAbsent("wind_speed_10m", j) => a.wind_speed = NA
                      /\ FieldAbsent("wind_direction_10m", j) => a.wind_direction = NA

\* surf_alert_email.py returned a report after evaluating an hour that lies
\* beyond the end of a wave-period array shorter than the time axis.
C7_Witness ==
    /\ variant = "email"
    /\ pc = "returned"
    /\ ~alert_data.absent
    /\ \E j \in Processed :
          /\ Evaluated(j)
          /\ "wave_period" \in DOMAIN data.hourly
          /\ j > Len(data.hourly["wave_period"])
          /\ ScoresAt(j) # {}

\* The response lacks a mandatory axis or its time axis is empty.
Malformed ==
    \/ "wave_height" \notin DOMAIN data.hourly
    \/ "time" \notin DOMAIN data.hourly
    \/ data.hourly["time"] = <<>>

\* C8: on a response with an 'hourly' object analyze_forecast fails if and
\* only if the wave-height array is missing or the time axis is missing or
\* empty, then without any report; no other absence of data makes it fail.
C8_FailsIffMalformed ==
    (~data.isNone /\ data.hasHourly /\ pc \in {"crashed", "returned", "send", "exit"}) =>
        /\ (pc = "crashed") <=> Malformed
        /\ pc = "crashed" => alert_data.absent

\* Tomorrow has forecast data the script can use: an hour of tomorrow with a
\* wave height (in surf_alert_email.py, an hour inside the daylight filter).
Usable ==
    /\ HasAxes
    /\ \E j \in 1..Len(times) :
          /\ times[j].date = tomorrow
          /\ j <= Len(wave_heights)
          /\ wave_heights[j] # None
          /\ variant = "email" => is_daylight(times[j].hour, window[1], window[2])

\* What main prints when there is no forecast data to report on.
NoDataOutputs ==
    {<<"fetch_failed">>, <<"no_data_for_tomorrow">>, <<"no_alerts_below_threshold">>}

\* C9: in each script analyze_forecast returns None only when there is no
\* usable forecast data; when tomorrow's data is there and no hour qualifies
\* it returns a report with an empty alert list, and main's output then
\* differs from its output for "no data available".
C9_NoAlertStatesDistinct ==
    (pc \in {"returned", "send", "exit"} /\ ~data.isNone) =>
        /\ alert_data.absent => ~Usable
        /\ (Usable /\ alerts = <<>>) => (~alert_data.absent /\ alert_data.alerts = <<>>)
        /\ (pc = "exit" /\ Usable /\ alerts = <<>>) => output \notin NoDataOutputs

\* C10: a report returned by surf_alert_email.analyze_forecast has in
\* all_scores exactly one entry for every hour of tomorrow that passes the
\* daylight filter and has a non-null wave height (0 included), whatever its
\* height and quality, and no other entry; each entry carries that hour's
\* height and above_wave_threshold = (height >= SURF_THRESHOLD).
C10_AllScoresComplete ==
    (variant = "email" /\ pc = "returned" /\ ~alert_data.absent) =>
        LET log == alert_data.all_scores
            hours == {j \in 1..Len(times) : Evaluated(j)}
        IN  /\ Len(log) = Cardinality(hours)
            /\ \A j \in hours :
                  /\ Cardinality({k \in 1..Len(log) : log[k].time = strftime(times[j])}) = 1
                  /\ \A k \in 1..Len(log) : log[k].time = strftime(times[j]) =>
                        /\ log[k].wave_height = wave_heights[j]
                        /\ log[k].above_wave_threshold
                              <=> (wave_heights[j] >= SURF_THRESHOLD)

\* A report whose all_scores holds a flat hour (height 0) next to an hour
\* above the wave threshold.
C10_Witness ==
    /\ variant = "email"
    /\ pc = "returned"
    /\ ~alert_data.absent
    /\ Len(alert_data.all_scores) = 2
    /\ \E a, b \in 1..2 :
          /\ alert_data.all_scores[a].wave_height = 0
          /\ ~alert_data.all_scores[a].above_wave_threshold
          /\ alert_data.all_scores[b].wave_height >= SURF_THRESHOLD

\* ------------------------------------- score_wind_direction, every degree
\* One call of the scoring engine for each whole wind direction 0..360, the
\* other four inputs those of a good hour.
InitWind ==
    /\ variant = "email"
    /\ InitPipe
    /\ args \in [h : {100}, p : {62}, wd : {110}, ws : {8}, wdir : 0..360]
    /\ ret = NoRet

SpecWind == InitWind /\ [][NextScore]_vars

\* C11: for every wind direction in [0, 360] score_wind_direction is 100
\* within 30 degrees of an offshore direction, 80 in the side-offshore bands
\* (beyond 330, below 30, 240 to 270), 60 in the cross-shore bands (30 to 80,
\* 180 to 240), 30 in the onshore band (80 to 150), and 50 only outside all
\* of them (150 to 180); the boundary angles 30, 80 and 240 between adjacent
\* bands take the score of one of their two bands, not the default 50.
C11_WindBandsExhaustive ==
    ret.done =>
        LET w == args.wdir
            s == ret.wind_dir_score
        IN  /\ (\E d \in OFFSHORE_WIND_DIRECTIONS : Abs(w - d) < 30) => s = 100
            /\ (w < 30 \/ w = 360) => s = 80
            /\ ((30 < w /\ w < 80) \/ (180 < w /\ w < 240)) => s = 60
            /\ (80 < w /\ w < 150) => s = 30
            /\ w = 30 => s \in {80, 60}
            /\ w = 80 => s \in {60, 30}
            /\ w = 240 => s \in {60, 80, 100}
            /\ s = 50 => (150 <= w /\ w <= 180)

\* ------------------------------- calculate_surf_quality on two inputs
\* Everything the float computation of calculate_surf_quality reads: the
\* five sub-scores and the synergy factor.  Two calls with the same operands
\* do the same operations on the same doubles and return the same value,
\* also on a rounding tie.
QualityOperands(h, p, wd, ws, wdir) ==
    <<score_wave_height(h), score_wave_period(p), score_swell_direction(wd),
      score_wind_direction(wdir, wd), score_wind_speed(ws), ApplySynergy(10000, h, p)>>

MonoHeights == {x \in HeightInputs : x # None /\ x < 180}
MonoPeriods == PeriodInputs \ {None}
MonoSwell   == {None, 0, 110}
MonoWindDir == {None, 100, 300}
MonoWindSpd == {None, 0, 60}

\* Two inputs that differ in one coordinate only: a period p <= p2 at one
\* height, or a height h <= h2 below 1.8 m at one period; the swell
\* direction, wind speed and wind direction are shared.
InitMono ==
    /\ variant = "email"
    /\ InitPipe
    /\ args \in { a \in [h : HeightInputs, p : PeriodInputs, h2 : HeightInputs,
                         p2 : PeriodInputs, wd : MonoSwell, ws : MonoWindSpd,
                         wdir : MonoWindDir] :
                    \/ a.h = a.h2 /\ a.p \in MonoPeriods /\ a.p2 \in MonoPeriods
                          /\ a.p <= a.p2
                    \/ a.p = a.p2 /\ a.h \in MonoHeights /\ a.h2 \in MonoHeights
                          /\ a.h <= a.h2 }
    /\ ret = NoRet

\* calculate_surf_quality(h, p, ...) and calculate_surf_quality(h2, p2, ...)
CompareQuality ==
    /\ ~ret.done
    /\ \E q1 \in calculate_surf_quality(args.h, args.p, args.wd, args.ws, args.wdir),
          q2 \in calculate_surf_quality(args.h2, args.p2, args.wd, args.ws, args.wdir) :
          /\ QualityOperands(args.h, args.p, args.wd, args.ws, args.wdir)
                = QualityOperands(args.h2, args.p2, args.wd, args.ws, args.wdir)
             => q1 = q2
          /\ ret' = [done |-> TRUE, q1 |-> q1, q2 |-> q2]
    /\ UNCHANGED <<pipeVars, args>>

NextMono == CompareQuality

SpecMono == InitMono /\ [][NextMono]_vars

\* C12: with swell direction, wind speed and wind direction fixed,
\* calculate_surf_quality does not decrease when the wave period grows at a
\* fixed height, nor when the wave height grows within [0, 1.8 m) at a fixed
\* period, across the 0.2 m floor, the bonus and penalty thresholds, and
\* after rounding to one decimal and capping at 100.
C12_QualityMonotone == ret.done => ret.q1 <= ret.q2

\* Two calls at period 6.0 s whose heights 0.99 m and 1.00 m lie on the two
\* sides of the 1.05 threshold while 1.10 already applies to both, and the
\* result is below the cap.
C12_Witness ==
    /\ ret.done
    /\ args.p = 60 /\ args.p2 = 60
    /\ args.h = 99 /\ args.h2 = 100
    /\ ret.q2 < 1000

(***************************************************************************)
(* degrees_to_compass, both scripts.  Angles here are in hundredths of a   *)
(* degree, so that 11.25 and 22.5 are the integers 1125 and 2250 and the   *)
(* codes of None and 'N/A' are not angles of the input grid.  Python's %   *)
(* with a positive modulus is non-negative, as is TLA+'s; int() truncates, *)
(* which on the non-negative quotient is \div.  The list lookup is total   *)
(* here: an index outside the list yields "IndexError".                    *)
(***************************************************************************)
directions ==
    <<"N", "NNE", "NE", "ENE", "E", "ESE", "SE", "SSE",
      "S", "SSW", "SW", "WSW", "W", "WNW", "NW", "NNW">>

Lookup(index) ==
    IF index + 1 \in DOMAIN directions THEN directions[index + 1] ELSE "IndexError"

CompassIndexNoWrap(degrees) == ((degrees % 36000) + 1125) \div 2250

CompassIndex(degrees) == (((degrees % 36000) + 1125) \div 2250) % 16

degrees_to_compass(degrees) ==
    IF degrees = None \/ degrees = NA THEN "N/A"
    ELSE Lookup(CompassIndex(degrees))

degrees_to_compass_simple(degrees) ==
    IF degrees = None \/ degrees = NA THEN "N/A"
    ELSE LET normalized == degrees % 36000
             index      == (normalized + 1125) \div 2250
         IN  Lookup(index % 16)

CompassInputs == { 25 * n : n \in -1440..2880 }
Turns == -2..2

InitCompass ==
    /\ variant = "email"
    /\ InitPipe
    /\ args \in [deg : CompassInputs, k : Turns]
    /\ ret = NoRet

DegreesToCompass ==
    /\ ~ret.done
    /\ ret' = [done    |-> TRUE,
               name    |-> degrees_to_compass(args.deg),
               turned  |-> degrees_to_compass(args.deg + 36000 * args.k),
               sname   |-> degrees_to_compass_simple(args.deg),
               sturned |-> degrees_to_compass_simple(args.deg + 36000 * args.k)]
    /\ UNCHANGED <<pipeVars, args>>

NextCompass == DegreesToCompass

SpecCompass == InitCompass /\ [][NextCompass]_vars

CompassNames == { directions[n] : n \in DOMAIN directions }

\* C13: in both scripts degrees_to_compass maps every angle to one of the 16
\* compass names, maps 0, 360 and 720 degrees to "N", and gives the same name
\* for d and d + 360*k.
C13_CompassPeriodic ==
    ret.done =>
        /\ ret.name \in CompassNames /\ ret.sname \in CompassNames
        /\ ret.turned = ret.name /\ ret.sturned = ret.sname
        /\ args.deg \in {0, 36000, 72000} => ret.name = "N" /\ ret.sname = "N"

\* 354.5 degrees, turned back by one full circle: the quotient before the
\* final % 16 is 16, and both angles are named "N".
C13_Witness ==
    /\ ret.done
    /\ args.deg = 35450 /\ args.k = -1
    /\ ret.name = "N" /\ ret.turned = "N" /\ ret.sturned = "N"

\* ------------------------------------------------- the worked good hour
\* Hour j carries height 1.0 m, period 6.2 s, swell from 110, wind 8 km/h
\* from 300.
GoodHour(j) ==
    /\ wave_heights[j] = 100
    /\ Element(wave_periods, j) = 62
    /\ Element(wave_directions, j) = 110
    /\ Element(wind_speeds, j) = 8
    /\ Element(wind_directions, j) = 300

\* C14: with SURF_THRESHOLD 0.5 m and MIN_QUALITY_SCORE 50, an evaluated hour
\* of tomorrow with height 1.0 m, period 6.2 s, swell 110, wind 8 km/h from
\* 300 is logged with period score >= 85, height score >= 90, swell and
\* wind-direction scores 100, wind-speed score >= 90 and a quality between 90
\* and 100, and it is in the alert list with that quality.
C14_GoodHourAlerts ==
    (variant = "email" /\ InLoop /\ SURF_THRESHOLD = 50 /\ MIN_QUALITY_SCORE = 50) =>
        \A j \in Processed : (Evaluated(j) /\ GoodHour(j)) =>
            /\ ScoresAt(j) # {}
            /\ \A k \in ScoresAt(j) :
                  LET e == all_scores[k] IN
                  /\ e.breakdown.period_score >= 85
                  /\ e.breakdown.height_score >= 90
                  /\ e.breakdown.swell_dir_score = 100
                  /\ e.breakdown.wind_dir_score = 100
                  /\ e.breakdown.wind_speed_score >= 90
                  /\ e.quality_score >= 900
                  /\ e.quality_score <= 1000
                  /\ \E a \in AlertsAt(j) : alerts[a].quality_score = e.quality_score
            /\ \A a \in AlertsAt(j) : alerts[a].wave_height = 100

\* The good hour has been evaluated and stands in the alert list with
\* quality 98.9.
C14_Witness ==
    /\ variant = "email"
    /\ InLoop
    /\ \E j \in Processed :
          /\ Evaluated(j)
          /\ GoodHour(j)
          /\ \E a \in AlertsAt(j) : alerts[a].quality_score = 989

\* ------------------------------------------------------ order of alerts
\* The position on the time axis of the hour an alert entry was made from:
\* entries carry the time of day only, and are made from hours of tomorrow.
AxisIndex(stamp) ==
    CHOOSE j \in 1..Len(times) : times[j].date = tomorrow /\ strftime(times[j]) = stamp

\* The time axis is strictly ascending: (date, hour) grows with the index.
AscendingAxis ==
    \A a, b \in 1..Len(times) : a < b =>
        \/ times[a].date < times[b].date
        \/ times[a].date = times[b].date /\ times[a].hour < times[b].hour

\* C15: on an ascending time axis the alerts of
\* surf_alert_email.analyze_forecast are an order-preserving subsequence of
\* the axis: each entry is made from an hour of the axis, and the hours of
\* consecutive entries strictly ascend, so no hour is listed twice and no
\* later hour stands before an earlier one.
C15_AlertsAscending ==
    (variant = "email" /\ InLoop /\ AscendingAxis) =>
        /\ \A a \in 1..Len(alerts) :
              \E j \in Processed :
                  times[j].date = tomorrow /\ strftime(times[j]) = alerts[a].time
        /\ \A a, b \in 1..Len(alerts) : a < b =>
              AxisIndex(alerts[a].time) < AxisIndex(alerts[b].time)
        /\ pc = "returned" /\ ~alert_data.absent => alert_data.alerts = alerts

\* A returned report with two alerts, from tomorrow 09:00 and tomorrow 12:00.
C15_Witness ==
    /\ variant = "email"
    /\ pc = "returned"
    /\ ~alert_data.absent
    /\ Len(alert_data.alerts) = 2
    /\ AxisIndex(alert_data.alerts[1].time) = 1
    /\ AxisIndex(alert_data.alerts[2].time) = 2

\* ------------------------------------------------ notification ordering
\* What every state of a run says about the email: sent counts the calls of
\* send_email_notification.
SendDiscipline ==
    /\ sent <= 1
    /\ (sent = 1 \/ pc = "send") =>
          /\ variant = "email"
          /\ ~data.isNone
          /\ ~alert_data.absent
          /\ alert_data.alerts # <<>>
          /\ EMAIL_ENABLED
    /\ pc = "send" => sent = 0
    /\ sent = 1 => pc = "exit" /\ err = ""
    /\ (variant = "email" /\ pc = "exit" /\ data.isNone) =>
          sent = 0 /\ output = <<"fetch_failed">>
    /\ (variant = "email" /\ pc = "exit" /\ ~data.isNone /\ alert_data.absent) =>
          sent = 0 /\ output = <<"no_data_for_tomorrow">>

\* Once main is past the call of get_surf_forecast it never comes back to
\* it, and the forecast it holds is never replaced.
NoRefetch == pc # "main" => (pc' # "main" /\ data' = data)

\* C17: in surf_alert_email.main send_email_notification is called at most
\* once, and only after a successful fetch, a non-absent report with a
\* non-empty alert list and EMAIL_ENABLED; after a failed fetch or an absent
\* report main ends with no email and no second fetch; and after the send,
\* failed or not, main has ended normally.
C17_SendAtMostOnceAfterAlerts == []SendDiscipline /\ [][NoRefetch]_vars

\* A run whose one send failed inside send_email_notification: the failure
\* is printed and main has ended without an error.
C17_Witness ==
    /\ variant = "email"
    /\ pc = "exit"
    /\ sent = 1
    /\ err = ""
    /\ output[Len(output)] = "email_failed"

====
